---- MODULE Spec2Model ----
(***************************************************************************)
(* A model of mmocr/datasets/preparers/packers/ser_packer.py: SERPacker.   *)
(* pack_instance packs one (img_path, instances) sample into an MMOCR      *)
(* document; add_meta derives the BIO label vocabulary of a list of packed *)
(* documents and wraps it with the documents into the dataset envelope.    *)
(*                                                                         *)
(* Python values are records [t, s, n]: t is the type tag, s the           *)
(* characters of a string (a sequence of one-character strings), n the     *)
(* numbers of a list. A dict is a function whose DOMAIN is its key set.    *)
(***************************************************************************)
EXTENDS Integers, Sequences, FiniteSets, TLC

\* ------------------------------------------------------------------ bounds
\* instances of the sample handed to one pack_instance call (SpecPack)
MaxIns == 2
\* documents the driver collects before add_meta (Spec)
MaxDocs == 2
\* instances over all documents of one run (Spec)
MaxLabels == 3
\* concurrent pack_instance calls (SpecConc)
NCalls == 2

\* ------------------------------------------------------------ Python values
None == [t |-> "None", s |-> <<>>, n |-> <<>>]
Str(chars) == [t |-> "str", s |-> chars, n |-> <<>>]
List(nums) == [t |-> "list", s |-> <<>>, n |-> nums]
\* a `words` value: a list of {box, text} dicts, texts in s, boxes flattened in n
WordList(chars, nums) == [t |-> "words", s |-> chars, n |-> nums]
\* marks a key that the dict does not have; never a value of the program
Absent == [t |-> "absent", s |-> <<>>, n |-> <<>>]

\* bool(v): None, '' and [] are false
Truthy(v) == v.t # "None" /\ (Len(v.s) > 0 \/ Len(v.n) > 0)

\* dict.get(key, None)
Get(d, key) == IF key \in DOMAIN d THEN d[key] ELSE None

\* d.update({key: v})
Update(d, key, v) == [k \in DOMAIN d \cup {key} |-> IF k = key THEN v ELSE d[k]]

\* the dict {'text': text, 'box': box, 'label': label, 'words': words} without
\* the keys whose value is Absent
MkInstance(text, box, label, words) ==
    LET all == [k \in {"text", "box", "label", "words"} |->
                    CASE k = "text" -> text
                      [] k = "box" -> box
                      [] k = "label" -> label
                      [] OTHER -> words]
    IN  [k \in {j \in DOMAIN all : all[j] # Absent} |-> all[k]]

SeqsUpTo(S, n) == UNION {[1..k -> S] : k \in 0..n}

\* ------------------------------------------------------------------ strings
LowerCase == <<"a", "b", "c", "d", "e", "f", "g", "h", "i", "j", "k", "l", "m",
               "n", "o", "p", "q", "r", "s", "t", "u", "v", "w", "x", "y", "z">>
UpperCase == <<"A", "B", "C", "D", "E", "F", "G", "H", "I", "J", "K", "L", "M",
               "N", "O", "P", "Q", "R", "S", "T", "U", "V", "W", "X", "Y", "Z">>

UpperChar(c) ==
    IF \E i \in 1..Len(LowerCase) : LowerCase[i] = c
    THEN UpperCase[CHOOSE i \in 1..Len(LowerCase) : LowerCase[i] = c]
    ELSE c

\* str.upper()
Upper(chars) == [i \in 1..Len(chars) |-> UpperChar(chars[i])]

\* ---------------------------------------------------------- the file system
\* paths are sequences of components
data_root == <<"root">>
ImgX == <<"root", "imgs", "x.jpg">>
ImgY == <<"root", "imgs", "test", "y.jpg">>
ImgBad == <<"root", "imgs", "bad.jpg">>

\* mmcv.imread(img_path).shape[:2], or "unreadable" when there is no image
ImShape(img_path) ==
    CASE img_path = ImgX -> [ok |-> TRUE, h |-> 200, w |-> 100]
      [] img_path = ImgY -> [ok |-> TRUE, h |-> 3508, w |-> 2480]
      [] OTHER -> [ok |-> FALSE, h |-> 0, w |-> 0]

RECURSIVE CommonPrefix(_, _)
CommonPrefix(p, q) ==
    IF p = <<>> \/ q = <<>> \/ Head(p) # Head(q) THEN 0
    ELSE 1 + CommonPrefix(Tail(p), Tail(q))

\* osp.relpath(path, start) of two normalised absolute paths
RelPath(path, start) ==
    LET i == CommonPrefix(path, start)
        ups == [k \in 1..(Len(start) - i) |-> ".."]
        rel == ups \o SubSeq(path, i + 1, Len(path))
    IN  IF rel = <<>> THEN <<".">> ELSE rel

\* ------------------------------------------------------------ pack_instance
\* any() in place of all()
HasWordsAny(instances) ==
    \E i \in 1..Len(instances) : "words" \in DOMAIN instances[i]

\* has_words = all(['words' in ins for ins in instances])
HasWords(instances) ==
    \A i \in 1..Len(instances) : "words" \in DOMAIN instances[i]

\* no warning in either branch
WarnNever(has_words) == 0

\* the number of warnings.warn calls of the if/else on has_words
Warnings(has_words) == IF has_words THEN 0 ELSE 1

\* texts_per_doc, boxes_per_doc, labels_per_doc = [] and, if has_words,
\* words_per_doc = []. Without has_words the name words_per_doc stays unbound
\* and is never read; the unbound name is held as the empty list.
NewFrame(has_words) ==
    [texts |-> <<>>, boxes |-> <<>>, labels |-> <<>>, words |-> <<>>]

\* `and` in place of `or`
AssertAll(text, box, label) == Truthy(text) /\ Truthy(box) /\ Truthy(label)

\* assert text or box or label
AssertOk(text, box, label) == Truthy(text) \/ Truthy(box) \/ Truthy(label)

\* insert(0, ...) in place of append
PrependInstance(frame, instance, has_words) ==
    [texts |-> <<Get(instance, "text")>> \o frame.texts,
     boxes |-> <<Get(instance, "box")>> \o frame.boxes,
     labels |-> <<Get(instance, "label")>> \o frame.labels,
     words |-> IF has_words THEN <<Get(instance, "words")>> \o frame.words
               ELSE frame.words]

\* the appends of one loop iteration
AppendInstance(frame, instance, has_words) ==
    [texts |-> Append(frame.texts, Get(instance, "text")),
     boxes |-> Append(frame.boxes, Get(instance, "box")),
     labels |-> Append(frame.labels, Get(instance, "label")),
     words |-> IF has_words THEN Append(frame.words, Get(instance, "words"))
               ELSE frame.words]

\* one iteration of `for instance in instances`
LoopBody(frame, instance, has_words) ==
    IF AssertOk(Get(instance, "text"), Get(instance, "box"), Get(instance, "label"))
    THEN [ok |-> TRUE, frame |-> AppendInstance(frame, instance, has_words)]
    ELSE [ok |-> FALSE, frame |-> frame]

\* the whole loop from instance i on; failed_at is the index of the raise
RECURSIVE PackLoop(_, _, _, _)
PackLoop(instances, i, frame, has_words) ==
    IF i > Len(instances) THEN [ok |-> TRUE, frame |-> frame, failed_at |-> 0]
    ELSE LET r == LoopBody(frame, instances[i], has_words)
         IN  IF r.ok THEN PackLoop(instances, i + 1, r.frame, has_words)
             ELSE [ok |-> FALSE, frame |-> frame, failed_at |-> i]

\* packed_instances = dict(instances=dict(...), img_path=..., height=h, width=w)
PackedInstances(frame, has_words, img_path, shape) ==
    LET base == [texts |-> frame.texts, boxes |-> frame.boxes,
                 labels |-> frame.labels]
    IN  [instances |-> IF has_words THEN Update(base, "words", frame.words)
                       ELSE base,
         img_path |-> RelPath(img_path, data_root),
         height |-> shape.h,
         width |-> shape.w]

\* stands for "no document": the call raised
NoDoc == [instances |-> <<>>, img_path |-> <<>>, height |-> 0, width |-> 0]

\* pack_instance(sample): what it returns or raises, and the warnings it emits
PackInstance(sample) ==
    LET img_path == sample[1]
        instances == sample[2]
        shape == ImShape(img_path)
        has_words == HasWords(instances)
        loop == PackLoop(instances, 1, NewFrame(has_words), has_words)
    IN  IF ~shape.ok
        THEN [kind |-> "ImageError", doc |-> NoDoc, warnings |-> 0, failed_at |-> 0]
        ELSE IF ~loop.ok
        THEN [kind |-> "AssertionError", doc |-> NoDoc,
              warnings |-> Warnings(has_words), failed_at |-> loop.failed_at]
        ELSE [kind |-> "doc",
              doc |-> PackedInstances(loop.frame, has_words, img_path, shape),
              warnings |-> Warnings(has_words), failed_at |-> 0]

\* ----------------------------------------------------------------- add_meta
TagO == <<"O">>
TagB(label) == <<"B", "-">> \o Upper(label.s)
TagI(label) == <<"I", "-">> \o Upper(label.s)

\* as if every value, None too, had upper()
AnyHasUpper(label) == TRUE

\* label.upper() exists: label is a str (None.upper raises AttributeError)
HasUpper(label) == label.t = "str"

\* append('O') in place of insert(0, 'O')
AppendO(bio_label_list) == Append(bio_label_list, TagO)

\* bio_label_list.insert(0, 'O')
InsertO(bio_label_list) == <<TagO>> \o bio_label_list

\* get_bio_label_list(labels) from label i on
RECURSIVE BioLoop(_, _, _)
BioLoop(labels, i, bio_label_list) ==
    IF i > Len(labels) THEN [ok |-> TRUE, list |-> bio_label_list]
    ELSE LET label == labels[i]
         IN  IF label = Str(<<"o", "t", "h", "e", "r">>)
             THEN BioLoop(labels, i + 1, InsertO(bio_label_list))
             ELSE IF ~HasUpper(label)
             THEN [ok |-> FALSE, list |-> bio_label_list]
             ELSE BioLoop(labels, i + 1,
                          bio_label_list \o <<TagB(label), TagI(label)>>)

get_bio_label_list(labels) == BioLoop(labels, 1, <<>>)

\* the labels lists of the documents from document i on, concatenated
RECURSIVE ConcatLabels(_, _)
ConcatLabels(sample, i) ==
    IF i > Len(sample) THEN <<>>
    ELSE sample[i].instances["labels"] \o ConcatLabels(sample, i + 1)

\* as if labels started as an alias of the first document's list
AccumulateAliased(sample) ==
    LET all == ConcatLabels(sample, 1)
    IN  [labels |-> all,
         sample |-> IF sample = <<>> THEN sample
                    ELSE [sample EXCEPT ![1].instances["labels"] =
                              sample[1].instances["labels"] \o all]]

\* labels = []; for s in sample: labels += s['instances']['labels'], with the
\* sample list as the loop leaves it
AccumulateLabels(sample) ==
    [labels |-> ConcatLabels(sample, 1), sample |-> sample]

SetOf(seq) == {seq[i] : i \in 1..Len(seq)}

Orderings(S) ==
    {f \in [1..Cardinality(S) -> S] : \A x \in S : \E i \in DOMAIN f : f[i] = x}

\* list(labels) in place of list(set(labels))
NoDedupLabelLists(labels) == {labels}

\* list(set(labels)): the distinct labels in the set's iteration order, which
\* is any order
OrgLabelLists(labels) == Orderings(SetOf(labels))

\* {k: v for k, v in enumerate(bio_label_list)}
Id2Label(bio_label_list) ==
    [k \in 0..(Len(bio_label_list) - 1) |-> bio_label_list[k + 1]]

\* {v: k for k, v in enumerate(bio_label_list)}: a later k replaces an earlier
Label2Id(bio_label_list) ==
    [v \in SetOf(bio_label_list) |->
        (CHOOSE i \in 1..Len(bio_label_list) :
            /\ bio_label_list[i] = v
            /\ \A j \in 1..Len(bio_label_list) : bio_label_list[j] = v => j <= i) - 1]

\* stands for "no envelope": add_meta has not returned
NoMeta == [metainfo |-> [labels |-> <<>>, id2label |-> <<>>, label2id |-> <<>>],
           data_list |-> <<>>]

\* add_meta(sample) when list(set(labels)) comes out as org_label_list: what it
\* returns or raises, and the sample list afterwards
AddMeta(sample, org_label_list) ==
    LET acc == AccumulateLabels(sample)
        bio == get_bio_label_list(org_label_list)
    IN  IF ~bio.ok
        THEN [kind |-> "AttributeError", meta |-> NoMeta, sample |-> acc.sample]
        ELSE [kind |-> "meta",
              meta |-> [metainfo |-> [labels |-> org_label_list,
                                      id2label |-> Id2Label(bio.list),
                                      label2id |-> Label2Id(bio.list)],
                        data_list |-> acc.sample],
              sample |-> acc.sample]

\* ------------------------------------------------------------------- inputs
q == <<"q">>
Q == <<"Q">>
other == <<"o", "t", "h", "e", "r">>
Other == <<"O", "t", "h", "e", "r">>
Box1 == <<0, 0, 1, 1>>
Box2 == <<1, 1, 2, 2>>
Words1 == WordList(<<"a">>, <<0, 0, 1, 1>>)

TextVals == {Absent, Str(<<>>), Str(<<"a">>)}
BoxVals == {None, List(<<>>), List(Box1)}
LabelVals == {Absent, Str(<<>>), Str(q)}
WordsVals == {Absent, Words1}

\* the instances of SpecPack
RawInstances ==
    {MkInstance(t, b, l, w) : t \in TextVals, b \in BoxVals, l \in LabelVals,
                              w \in WordsVals}

\* the instances of Spec: labelled regions, one without a label, one with words,
\* one fully empty
DriverInstances ==
    {MkInstance(Str(<<"a">>), List(Box1), l, Absent) :
        l \in {Absent, Str(other), Str(Other), Str(q), Str(Q)}}
    \cup {MkInstance(Str(<<"b">>), List(Box2), Str(q), Words1),
          MkInstance(Absent, List(<<>>), Absent, Absent)}

\* the samples of SpecConc
InsA == MkInstance(Str(<<"a">>), List(Box1), Str(q), Absent)
InsB == MkInstance(Str(<<"b">>), List(Box2), Absent, Words1)
InsE == MkInstance(Str(<<>>), None, Absent, Words1)
ConcSamples ==
    {<<ImgX, <<>> >>, <<ImgX, <<InsA>> >>, <<ImgY, <<InsB>> >>,
     <<ImgY, <<InsA, InsB>> >>, <<ImgX, <<InsB, InsB>> >>,
     <<ImgX, <<InsB, InsE, InsA>> >>, <<ImgBad, <<InsA>> >>}

Calls == 1..NCalls

VARIABLES
    sample,     \* the argument of the latest pack_instance call
    outcome,    \* what that call returned or raised
    data_list,  \* the documents the driver has collected
    meta,       \* the envelope add_meta returned
    phase,      \* "packing", "aborted", "done" (add_meta returned), "failed"
    inputs,     \* SpecConc: the sample of each call
    pc,         \* SpecConc: where each call is
    idx,        \* SpecConc: the loop position of each call
    has_words,  \* SpecConc: the local has_words of each call
    frames,     \* SpecConc: the local lists, by frame
    packed      \* SpecConc: what each call returned

packVars == <<sample, outcome>>
driverVars == <<data_list, meta, phase>>
concVars == <<inputs, pc, idx, has_words, frames, packed>>
vars == <<sample, outcome, data_list, meta, phase, inputs, pc, idx, has_words,
          frames, packed>>

NoOutcome == [kind |-> "none", doc |-> NoDoc, warnings |-> 0, failed_at |-> 0]

DriverIdle == data_list = <<>> /\ meta = NoMeta /\ phase = "packing"

ConcIdle ==
    /\ inputs = <<>>
    /\ pc = <<>>
    /\ idx = <<>>
    /\ has_words = <<>>
    /\ frames = <<>>
    /\ packed = <<>>

\* ---------------------------------------------- SpecPack: one pack_instance
InitPack ==
    /\ sample \in {ImgX, ImgBad} \X SeqsUpTo(RawInstances, MaxIns)
    /\ outcome = NoOutcome
    /\ DriverIdle
    /\ ConcIdle

Pack ==
    /\ outcome.kind = "none"
    /\ outcome' = PackInstance(sample)
    /\ UNCHANGED <<sample, driverVars, concVars>>

NextPack == Pack

SpecPack == InitPack /\ [][NextPack]_vars

\* ------------------------- Spec: the driver packs each sample, then add_meta
RECURSIVE TotalIns(_)
TotalIns(docs) ==
    IF docs = <<>> THEN 0
    ELSE Len(Head(docs).instances["labels"]) + TotalIns(Tail(docs))

DriverSamples(room) == {ImgX, ImgBad} \X SeqsUpTo(DriverInstances, room)

Init ==
    /\ sample = <<ImgX, <<>> >>
    /\ outcome = NoOutcome
    /\ DriverIdle
    /\ ConcIdle

\* the driver calls pack_instance on the next sample; a raise ends the run
PackSample ==
    /\ phase = "packing"
    /\ Len(data_list) < MaxDocs
    /\ \E s \in DriverSamples(MaxLabels - TotalIns(data_list)) :
          LET r == PackInstance(s)
          IN  /\ sample' = s
              /\ outcome' = r
              /\ IF r.kind = "doc"
                 THEN data_list' = Append(data_list, r.doc) /\ phase' = "packing"
                 ELSE data_list' = data_list /\ phase' = "aborted"
    /\ UNCHANGED <<meta, concVars>>

\* the driver calls add_meta on the collected documents
AddMetaCall ==
    /\ phase = "packing"
    /\ \E org_label_list \in OrgLabelLists(AccumulateLabels(data_list).labels) :
          LET r == AddMeta(data_list, org_label_list)
          IN  /\ meta' = r.meta
              /\ data_list' = r.sample
              /\ phase' = IF r.kind = "meta" THEN "done" ELSE "failed"
    /\ UNCHANGED <<sample, outcome, concVars>>

Next == PackSample \/ AddMetaCall

Spec == Init /\ [][Next]_vars

\* ------------------- SpecConc: pack_instance calls, interleaved by statement
\* as if the lists were module-level, shared by all calls
SharedFrame(c) == 1

\* the frame that holds the locals of call c: every call has its own
FrameOf(c) == c

InitConc ==
    /\ sample = <<ImgX, <<>> >>
    /\ outcome = NoOutcome
    /\ DriverIdle
    /\ inputs \in [Calls -> ConcSamples]
    /\ pc = [c \in Calls |-> "start"]
    /\ idx = [c \in Calls |-> 1]
    /\ has_words = [c \in Calls |-> FALSE]
    /\ frames = [f \in Calls |-> NewFrame(FALSE)]
    /\ packed = [c \in Calls |-> NoOutcome]

\* lines 96-110: read the image, create the lists, compute has_words, warn
Begin(c) ==
    /\ pc[c] = "start"
    /\ IF ~ImShape(inputs[c][1]).ok
       THEN /\ pc' = [pc EXCEPT ![c] = "failed"]
            /\ packed' = [packed EXCEPT ![c].kind = "ImageError"]
            /\ UNCHANGED <<has_words, frames>>
       ELSE LET hw == HasWords(inputs[c][2])
            IN  /\ has_words' = [has_words EXCEPT ![c] = hw]
                /\ frames' = [frames EXCEPT ![FrameOf(c)] = NewFrame(hw)]
                /\ packed' = [packed EXCEPT ![c].warnings = Warnings(hw)]
                /\ pc' = [pc EXCEPT ![c] = "loop"]
    /\ UNCHANGED <<idx, inputs, packVars, driverVars>>

\* lines 112-122: one iteration of the loop
Iterate(c) ==
    /\ pc[c] = "loop"
    /\ idx[c] <= Len(inputs[c][2])
    /\ LET r == LoopBody(frames[FrameOf(c)], inputs[c][2][idx[c]], has_words[c])
       IN  IF r.ok
           THEN /\ frames' = [frames EXCEPT ![FrameOf(c)] = r.frame]
                /\ idx' = [idx EXCEPT ![c] = idx[c] + 1]
                /\ UNCHANGED <<pc, packed>>
           ELSE /\ pc' = [pc EXCEPT ![c] = "failed"]
                /\ packed' = [packed EXCEPT ![c].kind = "AssertionError",
                                            ![c].failed_at = idx[c]]
                /\ UNCHANGED <<frames, idx>>
    /\ UNCHANGED <<has_words, inputs, packVars, driverVars>>

\* lines 123-134: build and return the document
Finish(c) ==
    /\ pc[c] = "loop"
    /\ idx[c] > Len(inputs[c][2])
    /\ pc' = [pc EXCEPT ![c] = "done"]
    /\ packed' = [packed EXCEPT
                     ![c].kind = "doc",
                     ![c].doc = PackedInstances(frames[FrameOf(c)], has_words[c],
                                                inputs[c][1], ImShape(inputs[c][1]))]
    /\ UNCHANGED <<frames, idx, has_words, inputs, packVars, driverVars>>

NextConc == \E c \in Calls : Begin(c) \/ Iterate(c) \/ Finish(c)

SpecConc == InitConc /\ [][NextConc]_vars

\* ------------------------------------------------- properties of SpecPack
Packed == outcome.kind = "doc"
PackedInstancesOf == outcome.doc.instances
Readable == ImShape(sample[1]).ok
NumIns == Len(sample[2])
\* text, box and label of an instance are all absent or empty
FullyEmpty(ins) ==
    \A k \in {"text", "box", "label"} :
        k \notin DOMAIN ins \/ ins[k] \in {None, Str(<<>>), List(<<>>)}
EveryInsHasWords == \A i \in 1..NumIns : "words" \in DOMAIN sample[2][i]
SomeInsHasWords == \E i \in 1..NumIns : "words" \in DOMAIN sample[2][i]
\* the value the code reads for a key: None when the key is absent
Field(ins, key) == IF key \in DOMAIN ins THEN ins[key] ELSE None

\* C2: a returned document has the `words` key iff every input instance has a
\* `words` entry (the empty list included), and then words[i] is the `words`
\* value of the i-th input instance.
C2_WordsAllOrNothing ==
    Packed =>
        /\ ("words" \in DOMAIN PackedInstancesOf) <=> EveryInsHasWords
        /\ "words" \in DOMAIN PackedInstancesOf =>
              /\ Len(PackedInstancesOf["words"]) = NumIns
              /\ \A i \in 1..NumIns :
                    PackedInstancesOf["words"][i] = sample[2][i]["words"]

\* a document returned without `words` although one of its two instances has it
C2_Witness ==
    /\ Packed
    /\ NumIns = 2
    /\ SomeInsHasWords /\ ~EveryInsHasWords
    /\ "words" \notin DOMAIN PackedInstancesOf

\* C3 as stated: the warning is emitted exactly when has_words is false and at
\* least one instance has `words`; none when no instance has `words`.
C3_WarnOnlyWhenInconsistent ==
    Packed => (outcome.warnings = 1 <=> (~EveryInsHasWords /\ SomeInsHasWords))

\* C3 as the code has it: given a readable image, the warning is emitted exactly
\* once when some instance lacks a `words` entry (also when no instance has
\* one) and not at all when every instance has `words`; it is emitted before the
\* instances are validated and never prevents the document from being returned.
C3_WarnWheneverWordsDropped ==
    (outcome.kind # "none" /\ Readable) =>
        /\ outcome.warnings = (IF EveryInsHasWords THEN 0 ELSE 1)
        /\ Packed <=> \A i \in 1..NumIns : ~FullyEmpty(sample[2][i])

\* a document returned with a warning although no instance has `words`
C3_Witness ==
    /\ Packed
    /\ NumIns = 2
    /\ ~SomeInsHasWords
    /\ outcome.warnings = 1

\* C4: given a readable image, the call raises AssertionError iff some instance
\* has text, box and label all absent or empty; the raise is at the first such
\* instance and no document is returned; otherwise a document is returned.
C4_AssertIffFullyEmpty ==
    (outcome.kind # "none" /\ Readable) =>
        LET empties == {i \in 1..NumIns : FullyEmpty(sample[2][i])}
        IN  /\ outcome.kind = "AssertionError" <=> empties # {}
            /\ empties # {} =>
                  /\ outcome.failed_at \in empties
                  /\ \A i \in empties : outcome.failed_at <= i
                  /\ outcome.doc = NoDoc
            /\ empties = {} => Packed /\ outcome.doc # NoDoc

\* the raise at the second instance, the first one having only an empty text
\* and a box
C4_Witness ==
    /\ outcome.kind = "AssertionError"
    /\ Readable
    /\ NumIns = 2
    /\ outcome.failed_at = 2
    /\ ~FullyEmpty(sample[2][1])
    /\ ~Truthy(Field(sample[2][1], "text"))

\* C5: in a returned document texts, boxes, labels (and words when present) have
\* the length of the input list, and position i holds the text, box and label
\* (None when absent) of the i-th input instance.
C5_ParallelSequences ==
    Packed =>
        /\ \A k \in DOMAIN PackedInstancesOf : Len(PackedInstancesOf[k]) = NumIns
        /\ {"texts", "boxes", "labels"} \subseteq DOMAIN PackedInstancesOf
        /\ \A i \in 1..NumIns :
              /\ PackedInstancesOf["texts"][i] = Field(sample[2][i], "text")
              /\ PackedInstancesOf["boxes"][i] = Field(sample[2][i], "box")
              /\ PackedInstancesOf["labels"][i] = Field(sample[2][i], "label")

\* a document of two instances that differ in text, the second without a label
C5_Witness ==
    /\ Packed
    /\ NumIns = 2
    /\ Field(sample[2][1], "text") # Field(sample[2][2], "text")
    /\ "label" \notin DOMAIN sample[2][2]
    /\ "words" \in DOMAIN PackedInstancesOf

\* ----------------------------------------------------- properties of Spec
Returned == phase = "done"
MetaInfo == meta.metainfo
\* the labels of all collected documents
AllDocLabels ==
    UNION {SetOf(data_list[d].instances["labels"]) : d \in 1..Len(data_list)}
\* bio_label_list, read back from id2label
BioOf(id2label) == [i \in 1..Cardinality(DOMAIN id2label) |-> id2label[i - 1]]
OtherLabel == Str(<<"o", "t", "h", "e", "r">>)

\* C1: label2id is the exact inverse of id2label: the keys of id2label are
\* 0..n-1, label2id[id2label[i]] = i for each of them, and both mappings have
\* the same number of entries, whatever the raw labels are.
C1_Label2IdInverse ==
    Returned =>
        LET id2label == MetaInfo.id2label
            label2id == MetaInfo.label2id
        IN  /\ DOMAIN id2label = 0..(Cardinality(DOMAIN id2label) - 1)
            /\ \A i \in DOMAIN id2label :
                  id2label[i] \in DOMAIN label2id /\ label2id[id2label[i]] = i
            /\ Cardinality(DOMAIN label2id) = Cardinality(DOMAIN id2label)

\* C6: for the labels in their iteration order, bio_label_list is "O" (once, at
\* index 0) iff "other" is among them, followed by the pair B-<L uppercased>,
\* I-<L uppercased> of every other label L in iteration order, and nothing else.
C6_BioExpansion ==
    Returned =>
        LET labels == MetaInfo.labels
            bio == BioOf(MetaInfo.id2label)
            rest == SelectSeq(labels, LAMBDA l : l # OtherLabel)
            off == IF OtherLabel \in SetOf(labels) THEN 1 ELSE 0
        IN  /\ Len(bio) = 2 * Len(rest) + off
            /\ off = 1 => bio[1] = <<"O">>
            /\ Cardinality({i \in 1..Len(bio) : bio[i] = <<"O">>}) = off
            /\ \A j \in 1..Len(rest) :
                  /\ bio[off + 2 * j - 1] = <<"B", "-">> \o Upper(rest[j].s)
                  /\ bio[off + 2 * j] = <<"I", "-">> \o Upper(rest[j].s)

\* "other" iterated last, after a lower-case and a capitalised label
C6_Witness ==
    /\ Returned
    /\ Len(MetaInfo.labels) = 3
    /\ MetaInfo.labels[1] = Str(<<"q">>)
    /\ MetaInfo.labels[2] = Str(<<"O", "t", "h", "e", "r">>)
    /\ MetaInfo.labels[3] = OtherLabel
    /\ MetaInfo.id2label[0] = <<"O">>

\* C7: metainfo.labels holds every label of every document exactly once and
\* nothing else; for an empty document list labels, id2label and label2id are
\* empty.
C7_LabelsAreTheUnion ==
    Returned =>
        LET labels == MetaInfo.labels
        IN  /\ SetOf(labels) = AllDocLabels
            /\ \A i, j \in 1..Len(labels) : labels[i] = labels[j] => i = j
            /\ data_list = <<>> =>
                  /\ labels = <<>>
                  /\ DOMAIN MetaInfo.id2label = {}
                  /\ DOMAIN MetaInfo.label2id = {}

\* two documents that share a label, one of them with a second label
C7_Witness ==
    /\ Returned
    /\ Len(data_list) = 2
    /\ data_list[1].instances["labels"] = <<Str(<<"q">>), Str(<<"q">>)>>
    /\ data_list[2].instances["labels"] = <<OtherLabel>>
    /\ Len(MetaInfo.labels) = 2

\* C8: when add_meta returns, data_list of the envelope is the document list it
\* was given, and the documents are as they were before the call.
C8_DataListUnchanged ==
    [][(phase = "packing" /\ phase' = "done") =>
          (meta'.data_list = data_list /\ data_list' = data_list)]_vars

\* an envelope of two different documents, one with words
C8_Witness ==
    /\ Returned
    /\ Len(data_list) = 2
    /\ "words" \in DOMAIN data_list[1].instances
    /\ data_list[1] # data_list[2]
    /\ meta.data_list = data_list

\* C10: pack_instance returns a document for an instance without a label whose
\* text or box is non-empty, with None at that position of labels; add_meta on
\* documents with a None label raises during the BIO expansion and returns no
\* envelope.
C10_NullLabelFailsAtAggregation ==
    /\ (outcome.kind # "none" /\ ImShape(sample[1]).ok
          /\ \A i \in 1..Len(sample[2]) : ~FullyEmpty(sample[2][i])) =>
          /\ outcome.kind = "doc"
          /\ \A i \in 1..Len(sample[2]) :
                "label" \notin DOMAIN sample[2][i] =>
                    outcome.doc.instances["labels"][i] = None
    /\ (phase \in {"done", "failed"} /\ None \in AllDocLabels) =>
          (phase = "failed" /\ meta = NoMeta)

\* every pack_instance call returned, the last one for an instance without a
\* label, and add_meta raised
C10_Witness ==
    /\ phase = "failed"
    /\ Len(data_list) = 2
    /\ outcome.kind = "doc"
    /\ Len(sample[2]) = 1
    /\ "label" \notin DOMAIN sample[2][1]
    /\ data_list[1].instances["labels"] = <<Str(<<"q">>)>>
    /\ data_list[2].instances["labels"] = <<None>>

====
